---- MODULE Spec2Model ----
(***************************************************************************)
(* Column classifier (classifier.py), binning engine and single-column     *)
(* chart builder (chart_utils.py) and the caller's single-column branch    *)
(* (Visualizer.py) of the CSV visualizer.                                  *)
(*                                                                         *)
(* Numbers are held in fixed point, in thousandths (Unit), so that the     *)
(* non-integral values the classifier tests for and the 10^-3 adjustment   *)
(* pd.cut makes to the first interval are both exact.  A cell of a column  *)
(* is a record [k, v]: k = "num" (v the number in thousandths), "str" (v   *)
(* the identity of a text value) or "na" (a missing entry).  A pandas      *)
(* Series is [numeric, vals]: numeric is is_numeric_dtype of its dtype,    *)
(* vals its rows.                                                          *)
(***************************************************************************)
EXTENDS Integers, Sequences, FiniteSets, TLC

VARIABLES
    series,         \* the column df[col]
    classified,     \* the column as it was when tag was computed
    tag,            \* column_types[col], NoTag before classify_dataframe ran
    edits,          \* number of row edits made to the column so far
    chart_type,     \* the requested chart kind
    color_palette,  \* COLOR_THEMES[selected_theme]
    bin_width,      \* the bin width handed to the builder, NoWidth for None
    bins,           \* create_binned_data: the list of bin edges
    hist_data,      \* create_binned_data: pd.cut's bin index of every kept row
    binned_data,    \* create_binned_data: the returned table
    fig,            \* the chart builder's return value in the last run
    display,        \* what the caller put on the page
    series_y,       \* the second column of the table, df["b"]
    tag_y,          \* column_types["b"]
    selected_cols,  \* the multiselect's value, column names in selection order
    x_axis,         \* the "X-axis column" selectbox's value
    ai_interpreter, \* TRUE when GEMINI_API_KEY gave a ChartInterpreter
    auto_interpret, \* the "Auto-interpret charts" checkbox
    include_image,  \* the "Include chart image in analysis" checkbox
    cur_interp,     \* st.session_state.current_interpretation
    cur_interp_2col,\* st.session_state.current_interpretation_2col
    shown_interp    \* the interpretation on the page under the chart

uivars == <<series_y, tag_y, selected_cols, x_axis, ai_interpreter, auto_interpret,
            include_image, cur_interp, cur_interp_2col, shown_interp>>

vars == <<series, classified, tag, edits, chart_type, color_palette, bin_width,
          bins, hist_data, binned_data, fig, display, uivars>>

----------------------------------------------------------------------------
(* Bounds and constants *)

Unit == 1000
DiscreteLimit == 20
MaxExtra == 2
MaxEdits == 1
MaxRows == 3
MaxChartRows == 3
MaxPairRows == 2
NoWidth == 0

NoFig == [kind |-> "NoFig"]
NoInterp == [kind |-> "NoInterp"]
NoTag == "NoTag"
Tags == {"Categorical", "Numeric (Discrete)", "Numeric (Continuous)"}

----------------------------------------------------------------------------
(* Cells and Series *)

NA == [k |-> "na", v |-> 0]
Num(n) == [k |-> "num", v |-> n]
Str(i) == [k |-> "str", v |-> i]

Half == Unit \div 2

\* Series.dropna(): the rows that are not missing, in order.
dropna(vals) == SelectSeq(vals, LAMBDA c : c.k # "na")

\* Series.unique() as a set of cells.
unique(vals) == {vals[i] : i \in DOMAIN vals}

\* Series.nunique(): the number of distinct values, missing entries excluded.
nunique(vals) == Cardinality(unique(dropna(vals)))

\* pd.api.types.is_numeric_dtype(series)
is_numeric_dtype(s) == s.numeric

\* lambda x: isinstance(x, (int, float)) and float(x).is_integer()
is_integer(c) == c.k = "num" /\ c.v % Unit = 0

\* Mutant: <= in place of < at the distinct-value threshold.
few_distinct_inclusive(vals) == nunique(vals) <= DiscreteLimit

\* Mutant: the distinct count taken with dropna=False (NaN is one more value).
few_distinct_counting_na(vals) == Cardinality(unique(vals)) < DiscreteLimit

\* series.nunique() < 20
few_distinct(vals) == nunique(vals) < DiscreteLimit

\* Mutant: the integral rule tried before the {0, 1} rule.
classify_numeric_integral_first(vals) ==
    LET unique_vals == unique(dropna(vals))
        kept        == dropna(vals)
    IN  IF \A i \in DOMAIN kept : is_integer(kept[i])
        THEN IF few_distinct(vals)
             THEN "Numeric (Discrete)"
             ELSE "Numeric (Continuous)"
        ELSE IF unique_vals \subseteq {Num(0), Num(Unit)}
             THEN "Categorical"
             ELSE "Numeric (Continuous)"

\* classify_column, the branch taken for a numeric dtype.
classify_numeric(vals) ==
    LET unique_vals == unique(dropna(vals))
        kept        == dropna(vals)
    IN  IF unique_vals \subseteq {Num(0), Num(Unit)}
        THEN "Categorical"
        ELSE IF \A i \in DOMAIN kept : is_integer(kept[i])
             THEN IF few_distinct(vals)
                  THEN "Numeric (Discrete)"
                  ELSE "Numeric (Continuous)"
             ELSE "Numeric (Continuous)"

\* Mutant: the dtype test dropped, every column takes the numeric branch.
classify_column_no_dtype_test(s) == classify_numeric(s.vals)

classify_column(s) ==
    IF is_numeric_dtype(s)
    THEN classify_numeric(s.vals)
    ELSE "Categorical"

----------------------------------------------------------------------------
(* Columns the classifier is run on *)

\* The integers 2, 3, ..., k+1: k distinct integral values outside {0, 1}.
Run(k) == [i \in 1..k |-> Num((i + 1) * Unit)]

\* k rows 1, 0, 1, 0, ...: an indicator column.
Binary(k) == [i \in 1..k |-> Num((i % 2) * Unit)]

RunLens == {0, 1} \cup ((DiscreteLimit - 2)..DiscreteLimit)

NumericCells == {NA, Num(0), Num(Unit), Num(Unit + Half), Num(2 * Unit)}
ObjectCells == {NA, Str(1), Num(2 * Unit)}

SeqsUpTo(S, n) == UNION {[1..m -> S] : m \in 0..n}

Bodies == {Run(k) : k \in RunLens} \cup {Binary(k) : k \in RunLens}

ClassifyColumns ==
    {[numeric |-> TRUE, vals |-> x \o b] :
        x \in SeqsUpTo(NumericCells, MaxExtra), b \in Bodies}
    \cup
    {[numeric |-> FALSE, vals |-> x \o b] :
        x \in SeqsUpTo(ObjectCells, MaxExtra), b \in Bodies}

Idle ==
    /\ chart_type = "Bar Chart"
    /\ color_palette = "plotly"
    /\ bin_width = NoWidth
    /\ bins = <<>>
    /\ hist_data = <<>>
    /\ binned_data = <<>>
    /\ fig = NoFig
    /\ display = "nothing"

\* No second column, nothing selected, no API key.
IdleUI ==
    /\ series_y = [numeric |-> FALSE, vals |-> <<>>]
    /\ tag_y = NoTag
    /\ selected_cols = <<>>
    /\ x_axis = "a"
    /\ ai_interpreter = FALSE
    /\ auto_interpret = FALSE
    /\ include_image = FALSE
    /\ cur_interp = NoInterp
    /\ cur_interp_2col = NoInterp
    /\ shown_interp = NoInterp

InitClassify ==
    /\ series \in ClassifyColumns
    /\ tag = NoTag
    /\ classified = series
    /\ edits = 0
    /\ Idle
    /\ IdleUI

\* classify_dataframe on the one column: column_types[col] = classify_column(df[col])
Classify ==
    /\ tag' = classify_column(series)
    /\ classified' = series
    /\ UNCHANGED <<series, edits, chart_type, color_palette, bin_width,
                   bins, hist_data, binned_data, fig, display, uivars>>

Swap(vals, i) ==
    [j \in DOMAIN vals |-> IF j = i THEN vals[i + 1]
                           ELSE IF j = i + 1 THEN vals[i] ELSE vals[j]]

InsertAt(vals, i, c) == SubSeq(vals, 1, i - 1) \o <<c>> \o SubSeq(vals, i, Len(vals))

RemoveAt(vals, i) == SubSeq(vals, 1, i - 1) \o SubSeq(vals, i + 1, Len(vals))

\* The same table with two neighbouring rows exchanged.
SwapRows ==
    /\ edits < MaxEdits
    /\ \E i \in 1..(MaxExtra + 1) :
        /\ i + 1 <= Len(series.vals)
        /\ series' = [series EXCEPT !.vals = Swap(@, i)]
    /\ edits' = edits + 1
    /\ UNCHANGED <<tag, classified, chart_type, color_palette, bin_width,
                   bins, hist_data, binned_data, fig, display, uivars>>

\* The same table with one more row whose entry in this column is missing.
InsertMissing ==
    /\ edits < MaxEdits
    /\ \E i \in 1..(MaxExtra + 1) :
        /\ i <= Len(series.vals) + 1
        /\ series' = [series EXCEPT !.vals = InsertAt(@, i, NA)]
    /\ edits' = edits + 1
    /\ UNCHANGED <<tag, classified, chart_type, color_palette, bin_width,
                   bins, hist_data, binned_data, fig, display, uivars>>

\* The same table without one row whose entry in this column is missing.
DropMissing ==
    /\ edits < MaxEdits
    /\ \E i \in 1..(MaxExtra + 1) :
        /\ i <= Len(series.vals)
        /\ series.vals[i].k = "na"
        /\ series' = [series EXCEPT !.vals = RemoveAt(@, i)]
    /\ edits' = edits + 1
    /\ UNCHANGED <<tag, classified, chart_type, color_palette, bin_width,
                   bins, hist_data, binned_data, fig, display, uivars>>

NextClassify == Classify \/ SwapRows \/ InsertMissing \/ DropMissing

SpecClassify == InitClassify /\ [][NextClassify]_vars

----------------------------------------------------------------------------
(* Properties of the classifier, stated on the rows themselves *)

NonMissingValues(vals) == {vals[i] : i \in {j \in DOMAIN vals : vals[j].k # "na"}}

OnlyZeroOne(vals) == \A c \in NonMissingValues(vals) : c.k = "num" /\ c.v \in {0, Unit}

AllIntegral(vals) ==
    \A c \in NonMissingValues(vals) : c.k = "num" /\ (c.v \div Unit) * Unit = c.v

\* C2: classify_column is total: whatever the column (textual, mixed, numeric,
\* empty, entirely missing) the tag it returns is one of the three tags, and for
\* a column that is not of a numeric dtype the tag is Categorical.
C2_Total ==
    tag # NoTag =>
        /\ tag \in Tags
        /\ ~series.numeric => tag = "Categorical"

C2_Witness ==
    /\ tag = "Categorical"
    /\ ~series.numeric
    /\ \E i, j \in DOMAIN series.vals :
        series.vals[i].k = "str" /\ series.vals[j].k = "num"

\* C3: a numeric column whose distinct non-missing values all lie in {0, 1}
\* (none at all included) is Categorical, however many rows it has, although
\* all its values are integral.
C3_ZeroOne ==
    (tag # NoTag /\ series.numeric /\ OnlyZeroOne(series.vals)) => tag = "Categorical"

C3_Witness ==
    /\ tag = "Categorical"
    /\ series.numeric
    /\ Len(series.vals) >= DiscreteLimit
    /\ NonMissingValues(series.vals) = {Num(0), Num(Unit)}

\* C4: a numeric column with a value outside {0, 1} is Numeric (Discrete)
\* exactly when all its non-missing values are integral and fewer than 20 of
\* them are distinct, and Numeric (Continuous) otherwise.
C4_DiscreteOrContinuous ==
    (tag # NoTag /\ series.numeric /\ ~OnlyZeroOne(series.vals)) =>
        /\ tag = "Numeric (Discrete)" <=>
              (AllIntegral(series.vals)
               /\ Cardinality(NonMissingValues(series.vals)) < DiscreteLimit)
        /\ tag # "Numeric (Discrete)" => tag = "Numeric (Continuous)"

C4_Witness ==
    /\ tag = "Numeric (Discrete)"
    /\ series.numeric
    /\ Cardinality(NonMissingValues(series.vals)) = DiscreteLimit - 1

\* C5: the tag computed for a column is still the tag of that column after its
\* rows were exchanged or missing entries were added to it or removed from it.
C5_RowOrderAndMissing ==
    tag # NoTag => tag = classify_column(series)

C5_Witness ==
    /\ tag = "Numeric (Discrete)"
    /\ classified.vals # series.vals
    /\ Len(classified.vals) < Len(series.vals)
    /\ Cardinality(NonMissingValues(series.vals)) = DiscreteLimit - 1

----------------------------------------------------------------------------
(* create_binned_data *)

\* The numbers of the column, missing entries skipped (what min(), max() see).
numbers(vals) == {vals[i].v : i \in {j \in DOMAIN vals : vals[j].k = "num"}}

\* float(df[col].min()), float(df[col].max())
min_val(vals) == CHOOSE m \in numbers(vals) : \A n \in numbers(vals) : m <= n
max_val(vals) == CHOOSE m \in numbers(vals) : \A n \in numbers(vals) : n <= m

\* while current < max_val: bins.append(current); current += bin_width
RECURSIVE edges_loop(_, _, _)
edges_loop(current, hi, w) ==
    IF current < hi THEN <<current>> \o edges_loop(current + w, hi, w) ELSE <<>>

\* Mutant: the loop's last value of current closes the list, not max_val.
bin_edges_unclamped(lo, hi, w) ==
    LET body == edges_loop(lo, hi, w) IN body \o <<lo + Len(body) * w>>

\* The list bins: the loop's edges, then bins.append(max_val).
bin_edges(lo, hi, w) == edges_loop(lo, hi, w) \o <<hi>>

\* duplicates='drop': repeated edges are dropped unless there are just two edges.
RECURSIVE unique_in_order(_)
unique_in_order(b) ==
    IF b = <<>> THEN <<>>
    ELSE LET front == unique_in_order(SubSeq(b, 1, Len(b) - 1))
         IN  IF \E i \in DOMAIN front : front[i] = b[Len(b)]
             THEN front ELSE Append(front, b[Len(b)])

drop_duplicates(b) ==
    IF Len(unique_in_order(b)) < Len(b) /\ Len(b) # 2 THEN unique_in_order(b) ELSE b

\* Mutant: right=False, the edges searched with side="right".
searchsorted_right(b, x) == Cardinality({i \in DOMAIN b : b[i] <= x})

\* bins.searchsorted(x, side="left"), right=True being pd.cut's default.
searchsorted(b, x) == Cardinality({i \in DOMAIN b : b[i] < x})

\* pd.cut's bin number of x, 0 standing for NaN (x falls in no interval):
\* include_lowest puts x == bins[0] in the first bin, and an id of 0 or of
\* len(bins) is masked.
cut_id(b, x) ==
    LET found == searchsorted(b, x)
        ids   == IF x = b[1] THEN 1 ELSE found
    IN  IF ids = Len(b) \/ ids = 0 THEN 0 ELSE ids

\* 10 ** (-precision), precision = 3
Adjust == Unit \div 1000

\* The categories of pd.cut's result: IntervalIndex.from_breaks(breaks,
\* closed="right") with breaks[0] lowered by 10^-3 because include_lowest.
\* Edges are multiples of 10^-3, which rounding to the precision leaves alone.
categories(b) ==
    [i \in 1..(Len(b) - 1) |->
        [left  |-> IF i = 1 THEN b[1] - Adjust ELSE b[i],
         right |-> b[i + 1]]]

\* Mutant: the counts of a plain column, which has no rows for absent values.
count_rows_observed_only(cats, ids) ==
    LET all == [i \in DOMAIN cats |->
                   [Bin          |-> cats[i],
                    Count        |-> Cardinality({j \in DOMAIN ids : ids[j] = i}),
                    Bin_Midpoint |-> cats[i].left + cats[i].right]]
    IN  SelectSeq(all, LAMBDA r : r.Count > 0)

\* hist_data.value_counts().sort_index().reset_index(): one row per category
\* of the Categorical, in category order, with the number of rows in it.
\* Bin_Midpoint = (left + right) / 2 is held doubled, in half thousandths;
\* Bin_Label is display text of Bin and is not held.
count_rows(cats, ids) ==
    [i \in DOMAIN cats |->
        [Bin          |-> cats[i],
         Count        |-> Cardinality({j \in DOMAIN ids : ids[j] = i}),
         Bin_Midpoint |-> cats[i].left + cats[i].right]]

\* create_binned_data(df, col, bin_width): its locals and its result.
create_binned_data(vals, w) ==
    LET edges == bin_edges(min_val(vals), max_val(vals), w)
        kept  == dropna(vals)
        cut   == drop_duplicates(edges)
        ids   == [j \in DOMAIN kept |-> cut_id(cut, kept[j].v)]
    IN  [bins        |-> edges,
         hist_data   |-> ids,
         binned_data |-> count_rows(categories(cut), ids)]

BinValues == {0 - Unit, 0, Unit, 2 * Unit, 2 * Unit + Half, 4 * Unit}
BinCells == {NA} \cup {Num(n) : n \in BinValues}
Widths == {Half, Unit, Unit + Half, 5 * Unit}

\* Numeric columns with a value in them: an entirely missing column is
\* Categorical and is never binned.
BinColumns ==
    {[numeric |-> TRUE, vals |-> x] :
        x \in {y \in SeqsUpTo(BinCells, MaxRows) : numbers(y) # {}}}

InitBins ==
    /\ series \in BinColumns
    /\ classified = series
    /\ tag = NoTag
    /\ edits = 0
    /\ chart_type = "Bar Chart"
    /\ color_palette = "plotly"
    /\ bin_width \in Widths
    /\ bins = <<>>
    /\ hist_data = <<>>
    /\ binned_data = <<>>
    /\ fig = NoFig
    /\ display = "nothing"
    /\ IdleUI

\* create_binned_data has run: its list of edges is never empty.
Binned == bins # <<>>

CreateBinnedData ==
    /\ ~Binned
    /\ LET r == create_binned_data(series.vals, bin_width)
       IN  /\ bins' = r.bins
           /\ hist_data' = r.hist_data
           /\ binned_data' = r.binned_data
    /\ UNCHANGED <<series, classified, tag, edits, chart_type, color_palette,
                   bin_width, fig, display, uivars>>

NextBins == CreateBinnedData

SpecBins == InitBins /\ [][NextBins]_vars

----------------------------------------------------------------------------
(* Properties of create_binned_data *)

Lo == min_val(series.vals)
Hi == max_val(series.vals)
Kept == dropna(series.vals)
LastEdge == bins[Len(bins)]

\* v lies in the interval between edges r and r+1, taken closed on the left
\* and open on the right, the last interval closed on both sides.
InLeftClosed(v, r) ==
    /\ bins[r] <= v
    /\ \/ v < bins[r + 1]
       \/ r = Len(bins) - 1 /\ v <= bins[r + 1]

\* v lies in the interval between edges r and r+1, taken open on the left and
\* closed on the right, the first interval closed on both sides.
InRightClosed(v, r) ==
    /\ v <= bins[r + 1]
    /\ \/ bins[r] < v
       \/ r = 1 /\ v = bins[1]

RECURSIVE SumCount(_)
SumCount(rows) ==
    IF rows = <<>> THEN 0 ELSE rows[1].Count + SumCount(Tail(rows))

\* Values at, just below and just above every edge.
Probes == UNION {{bins[i] - Adjust, bins[i], bins[i] + Adjust} : i \in DOMAIN bins}

\* C6: when min < max the edges start at the minimum, increase strictly and
\* end at the maximum itself; the reported intervals follow one another
\* without a gap, the last one ends at the maximum, and a value falls in some
\* interval exactly when it lies in [min, max].
C6_Edges ==
    (Binned /\ Lo < Hi) =>
        /\ Len(bins) >= 2
        /\ bins[1] = Lo
        /\ LastEdge = Hi
        /\ \A i \in 1..(Len(bins) - 1) : bins[i] < bins[i + 1]
        /\ Len(binned_data) = Len(bins) - 1
        /\ \A i \in 1..(Len(binned_data) - 1) :
              binned_data[i].Bin.right = binned_data[i + 1].Bin.left
        /\ binned_data[Len(binned_data)].Bin.right = Hi
        /\ \A v \in Probes : (cut_id(bins, v) # 0) <=> (Lo <= v /\ v <= Hi)

C6_Witness ==
    /\ Binned
    /\ Lo < Hi
    /\ Len(bins) >= 3
    /\ LastEdge - bins[Len(bins) - 1] < bin_width

\* C7: a constant column gives exactly one interval, [min, max], and all the
\* non-missing values are counted in it.
C7_ConstantColumn ==
    (Binned /\ Lo = Hi) =>
        /\ Len(binned_data) = 1
        /\ binned_data[1].Bin.left <= Lo
        /\ binned_data[1].Bin.right = Hi
        /\ binned_data[1].Count = Len(Kept)

C9_CountsSum ==
    Binned => SumCount(binned_data) = Len(Kept)

\* The counts do add up when the column is not constant.
CountsSumWhenRange ==
    (Binned /\ Lo < Hi) => SumCount(binned_data) = Len(Kept)

\* C10: the table has one row for every interval between neighbouring
\* edges, also for an interval no value falls in (count 0), each row with the
\* number of values of its interval, and the rows ascend by lower bound.
C10_RowPerInterval ==
    Binned =>
        /\ Len(binned_data) = Len(bins) - 1
        /\ \A i \in DOMAIN binned_data :
            /\ binned_data[i].Bin.right = bins[i + 1]
            /\ binned_data[i].Bin.left = IF i = 1 THEN bins[1] - Adjust ELSE bins[i]
            /\ binned_data[i].Count =
                  Cardinality({j \in DOMAIN Kept : InRightClosed(Kept[j].v, i)})
        /\ \A i \in 1..(Len(binned_data) - 1) :
              binned_data[i].Bin.left < binned_data[i + 1].Bin.left

C10_Witness ==
    /\ Binned
    /\ Len(binned_data) >= 3
    /\ \E i \in 2..(Len(binned_data) - 1) : binned_data[i].Count = 0
    /\ binned_data[1].Count > 0

----------------------------------------------------------------------------
(* Colour themes *)

\* COLOR_THEMES.values()
KnownPalettes ==
    {"plotly", "viridis", "plasma", "inferno", "magma", "blues", "reds",
     "greens", "purples", "oranges", "rainbow", "turbo", "pastel", "bold",
     "vivid", "safe"}

PerceptualPalettes == {"viridis", "plasma", "inferno", "magma"}
HuePalettes == {"blues", "reds", "greens", "purples", "oranges"}

\* str.capitalize() of the palettes it is applied to.
capitalize(name) ==
    CASE name = "viridis" -> "Viridis"
      [] name = "plasma"  -> "Plasma"
      [] name = "inferno" -> "Inferno"
      [] name = "magma"   -> "Magma"
      [] name = "blues"   -> "Blues"
      [] name = "reds"    -> "Reds"
      [] name = "greens"  -> "Greens"
      [] name = "purples" -> "Purples"
      [] name = "oranges" -> "Oranges"

DefaultColor == [family |-> "default", name |-> "plotly", whole |-> TRUE, index |-> 0]

\* One colour of a plotly colour list: px.colors.<family>.<name>[index].
OneColor(family, name, index) ==
    [family |-> family, name |-> name, whole |-> FALSE, index |-> index]

\* A whole plotly colour list, given as color_discrete_sequence.
ColorSeq(family, name) ==
    [family |-> family, name |-> name, whole |-> TRUE, index |-> 0]

\* apply_color_theme(fig, color_palette, "single"): the marker colour of the
\* traces afterwards, DefaultColor when the figure is returned untouched.
apply_color_theme(palette) ==
    IF palette = "plotly" THEN DefaultColor
    ELSE IF palette \in PerceptualPalettes THEN OneColor("sequential", capitalize(palette), 3)
    ELSE IF palette \in HuePalettes THEN OneColor("sequential", capitalize(palette), 5)
    ELSE IF palette = "rainbow" THEN OneColor("qualitative", "Set3", 0)
    ELSE IF palette = "turbo" THEN OneColor("sequential", "Turbo", 5)
    ELSE IF palette = "pastel" THEN OneColor("qualitative", "Pastel1", 0)
    ELSE IF palette = "bold" THEN OneColor("qualitative", "Bold", 0)
    ELSE IF palette = "vivid" THEN OneColor("qualitative", "Vivid", 0)
    ELSE IF palette = "safe" THEN OneColor("qualitative", "Safe", 0)
    ELSE DefaultColor

\* The colour sequence of a pie chart.
pie_colors(palette) ==
    IF palette = "plotly" THEN DefaultColor
    ELSE IF palette \in PerceptualPalettes \cup HuePalettes
         THEN ColorSeq("sequential", capitalize(palette))
    ELSE IF palette = "turbo" THEN ColorSeq("sequential", "Turbo")
    ELSE IF palette = "rainbow" THEN ColorSeq("qualitative", "Set3")
    ELSE IF palette = "pastel" THEN ColorSeq("qualitative", "Pastel1")
    ELSE IF palette = "bold" THEN ColorSeq("qualitative", "Bold")
    ELSE IF palette = "vivid" THEN ColorSeq("qualitative", "Vivid")
    ELSE IF palette = "safe" THEN ColorSeq("qualitative", "Safe")
    ELSE ColorSeq("qualitative", "Set1")

----------------------------------------------------------------------------
(* create_single_column_chart *)

None == [kind |-> "None"]
Raised == [kind |-> "Raised"]

\* A plotly figure, by what the builder put into it: the kind of trace, the
\* x and y columns, the plotted table, how the table was aggregated, the
\* column that splits it into coloured series ("none" when there is none),
\* the title as its words, the bin width quoted in the title, the colours.
Figure(mark, x, y, data, agg, color_by, title, width, color) ==
    [kind |-> "Figure", mark |-> mark, x |-> x, y |-> y, data |-> data,
     agg |-> agg, color_by |-> color_by,
     title |-> title, title_width |-> width, color |-> color]

\* Mutant: a title of the chart kind alone.
single_title_kind_only(kind, col) == <<kind>>

\* f'{kind} of {col}', by its words; the bin width that may follow is the
\* figure's title_width.
single_title(kind, col) == <<kind, "of", col>>

\* f'{chart_type}: {y_axis} vs {x_axis}'
plain_title(kind, x, y) == <<kind, ":", y, "vs", x>>

\* f'Average {y_axis} by {x_axis}'
average_title(x, y) == <<"Average", y, "by", x>>

\* f'Count by {x_axis} and {y_axis}'
count_title(x, y) == <<"Count", "by", x, "and", y>>

\* Rows of a count table: the new row goes behind the rows that count as many.
insert_by_count(sorted, row) ==
    InsertAt(sorted,
             Cardinality({i \in DOMAIN sorted : sorted[i].Count >= row.Count}) + 1,
             row)

RECURSIVE sort_by_count(_)
sort_by_count(rows) ==
    IF rows = <<>> THEN <<>>
    ELSE insert_by_count(sort_by_count(SubSeq(rows, 1, Len(rows) - 1)), rows[Len(rows)])

\* The cells of a set in ascending order (cells of one kind, by their v).
RECURSIVE sort_cells(_)
sort_cells(S) ==
    IF S = {} THEN <<>>
    ELSE LET least == CHOOSE c \in S : \A d \in S : c.v <= d.v
         IN  <<least>> \o sort_cells(S \ {least})

\* Mutant: the counts followed by sort_index(), the rows ordered by value.
value_counts_by_value(vals) ==
    LET kept == dropna(vals)
        keys == sort_cells(unique(kept))
    IN  [i \in DOMAIN keys |->
            [value |-> keys[i],
             Count |-> Cardinality({j \in DOMAIN kept : kept[j] = keys[i]})]]

\* df[col].value_counts().reset_index(): one row per distinct non-missing
\* value, the most frequent first, equally frequent values as first met.
value_counts(vals) ==
    LET kept == dropna(vals)
        seen == unique_in_order(kept)
    IN  sort_by_count(
            [i \in DOMAIN seen |->
                [value |-> seen[i],
                 Count |-> Cardinality({j \in DOMAIN kept : kept[j] = seen[i]})]])

\* expanded_data: every bin's midpoint, Count times over.
RECURSIVE expand_midpoints(_)
expand_midpoints(rows) ==
    IF rows = <<>> THEN <<>>
    ELSE [j \in 1..rows[1].Count |-> rows[1].Bin_Midpoint] \o expand_midpoints(Tail(rows))

\* max(1, int((max_val - min_val) / bin_width))
num_bins(vals, w) ==
    LET q == (max_val(vals) - min_val(vals)) \div w IN IF q > 1 THEN q ELSE 1

\* float() of the minimum fails on text, the division on bin_width None, and
\* int() on the NaN an empty column gives.
histogram_raises(vals, w) ==
    \/ \E i \in DOMAIN vals : vals[i].k = "str"
    \/ w = NoWidth
    \/ numbers(vals) = {}

\* Mutant: the pie branch without its test of col_type.
pie_chart_any_type(col, vals, col_type, palette) ==
    Figure("pie", col, "Count", value_counts(vals), "frequency", "none",
           single_title("Pie Chart", col), NoWidth, pie_colors(palette))

\* elif chart_type == "Pie Chart"
pie_chart(col, vals, col_type, palette) ==
    IF col_type = "Categorical"
    THEN Figure("pie", col, "Count", value_counts(vals), "frequency", "none",
                single_title("Pie Chart", col), NoWidth, pie_colors(palette))
    ELSE None

\* create_single_column_chart(df, col, col_type, chart_type, color_palette,
\* bin_width).  A col_type other than Categorical comes with a bin width and
\* a numeric column that has a value, as the caller passes them.
create_single_column_chart(col, vals, col_type, kind, palette, w) ==
    IF kind = "Bar Chart"
    THEN IF col_type = "Categorical"
         THEN Figure("bar", col, "Count", value_counts(vals), "frequency", "none",
                     single_title("Bar Chart", col), NoWidth, apply_color_theme(palette))
         ELSE Figure("bar", "Bin_Label", "Count", create_binned_data(vals, w).binned_data,
                     "bins", "none",
                     single_title("Bar Chart", col), w, apply_color_theme(palette))
    ELSE IF kind = "Line Chart"
    THEN IF col_type = "Categorical"
         THEN Figure("line", col, "Count", value_counts(vals), "frequency", "none",
                     single_title("Line Chart", col), NoWidth, apply_color_theme(palette))
         ELSE Figure("line", "Bin_Label", "Count", create_binned_data(vals, w).binned_data,
                     "bins", "none",
                     single_title("Line Chart", col), w, apply_color_theme(palette))
    ELSE IF kind = "Pie Chart"
    THEN pie_chart(col, vals, col_type, palette)
    ELSE IF kind = "Box Plot"
    THEN IF col_type = "Categorical"
         THEN Figure("box", "none", col, vals, "raw", "none",
                     single_title("Box Plot", col), NoWidth, apply_color_theme(palette))
         ELSE Figure("box", "none", "Binned_Values",
                     expand_midpoints(create_binned_data(vals, w).binned_data),
                     "bins", "none",
                     single_title("Box Plot", col), w, apply_color_theme(palette))
    ELSE IF kind = "Histogram"
    THEN IF histogram_raises(vals, w)
         THEN Raised
         ELSE Figure("histogram", col, "count", <<vals, num_bins(vals, w)>>,
                     "raw", "none",
                     single_title("Histogram", col), w, apply_color_theme(palette))
    ELSE None

\* Does the call run create_binned_data?
calls_binning(col_type, kind) ==
    col_type # "Categorical" /\ kind \in {"Bar Chart", "Line Chart", "Box Plot"}

----------------------------------------------------------------------------
(* create_two_column_chart *)

NumericTags == {"Numeric (Continuous)", "Numeric (Discrete)"}

\* The rows of df[[x_axis, y_axis]].
paired(xv, yv) == [i \in DOMAIN xv |-> [x |-> xv[i], y |-> yv[i]]]

\* Series.mean() of the y values of a group: missing entries are skipped;
\* the mean is held as the exact fraction sum / n (n = 0: NaN).
group_mean(xv, yv, key) ==
    LET rows == {i \in DOMAIN xv : xv[i] = key /\ yv[i].k = "num"}
        total[S \in SUBSET rows] ==
            IF S = {} THEN 0
            ELSE LET i == CHOOSE j \in S : TRUE IN yv[i].v + total[S \ {i}]
    IN  [sum |-> total[rows], n |-> Cardinality(rows)]

\* Mutant: the first y value of the group in place of the mean of all.
mean_by_x_first_only(xv, yv) ==
    LET keys == sort_cells(unique(dropna(xv)))
    IN  [g \in DOMAIN keys |->
            LET first == CHOOSE i \in DOMAIN xv :
                            /\ xv[i] = keys[g]
                            /\ \A j \in DOMAIN xv : xv[j] = keys[g] => i <= j
            IN  [x |-> keys[g],
                 y |-> IF yv[first].k = "num"
                       THEN [sum |-> yv[first].v, n |-> 1]
                       ELSE [sum |-> 0, n |-> 0]]]

\* df.groupby(x_axis)[y_axis].mean().reset_index(): one row per distinct
\* non-missing x value, in ascending order of x.
mean_by_x(xv, yv) ==
    LET keys == sort_cells(unique(dropna(xv)))
    IN  [g \in DOMAIN keys |-> [x |-> keys[g], y |-> group_mean(xv, yv, keys[g])]]

\* The (x, y) pairs of a set in ascending order, by x and then by y.
RECURSIVE sort_pairs(_)
sort_pairs(S) ==
    IF S = {} THEN <<>>
    ELSE LET least == CHOOSE p \in S : \A q \in S :
                          \/ p.x.v < q.x.v
                          \/ p.x.v = q.x.v /\ p.y.v <= q.y.v
         IN  <<least>> \o sort_pairs(S \ {least})

\* df.groupby([x_axis, y_axis]).size().reset_index(name='Count'): one row per
\* pair that occurs with both values present, in ascending order.
count_by_pair(xv, yv) ==
    LET rows  == paired(xv, yv)
        whole == {i \in DOMAIN rows : rows[i].x.k # "na" /\ rows[i].y.k # "na"}
        keys  == sort_pairs({rows[i] : i \in whole})
    IN  [g \in DOMAIN keys |->
            [x |-> keys[g].x, y |-> keys[g].y,
             Count |-> Cardinality({i \in whole : rows[i] = keys[g]})]]

QualitativePalettes == {"pastel", "bold", "vivid", "safe"}

\* color_map[color_palette]
color_map(palette) ==
    CASE palette = "pastel" -> "Pastel1"
      [] palette = "bold"   -> "Bold"
      [] palette = "vivid"  -> "Vivid"
      [] palette = "safe"   -> "Safe"

\* The colour sequence of a scatter plot.
scatter_colors(palette) ==
    IF palette = "plotly" THEN DefaultColor
    ELSE IF palette \in PerceptualPalettes \cup HuePalettes
         THEN ColorSeq("sequential", capitalize(palette))
    ELSE IF palette = "turbo" THEN ColorSeq("sequential", "Turbo")
    ELSE IF palette \in QualitativePalettes THEN ColorSeq("qualitative", color_map(palette))
    ELSE DefaultColor

\* The colour sequence of the bars of two Categorical columns.
grouped_bar_colors(palette) ==
    IF palette = "plotly" THEN DefaultColor
    ELSE IF palette \in PerceptualPalettes \cup HuePalettes
         THEN ColorSeq("sequential", capitalize(palette))
    ELSE IF palette = "turbo" THEN ColorSeq("sequential", "Turbo")
    ELSE IF palette \in QualitativePalettes THEN ColorSeq("qualitative", color_map(palette))
    ELSE ColorSeq("qualitative", "Set1")

\* Mutant: the Line Chart's test applied to the Bar Chart as well, two
\* Categorical columns plotted directly.
bar_aggregation_as_line(x_type, y_type) ==
    IF x_type = "Categorical" /\ y_type \in NumericTags THEN "mean" ELSE "raw"

\* The branch the Bar Chart takes.
bar_aggregation(x_type, y_type) ==
    IF x_type = "Categorical" /\ y_type \in NumericTags THEN "mean"
    ELSE IF x_type = "Categorical" /\ y_type = "Categorical" THEN "count"
    ELSE "raw"

\* The branch the Line Chart takes.
line_aggregation(x_type, y_type) ==
    IF x_type = "Categorical" /\ y_type \in NumericTags THEN "mean" ELSE "raw"

\* create_two_column_chart(df, x_axis, y_axis, chart_type, color_palette,
\* column_types), xv and yv the two columns and x_type, y_type their entries
\* in column_types.
create_two_column_chart(x, y, xv, yv, x_type, y_type, kind, palette) ==
    IF kind = "Scatter Plot"
    THEN Figure("scatter", x, y, paired(xv, yv), "raw", "none",
                plain_title(kind, x, y), NoWidth, scatter_colors(palette))
    ELSE IF kind = "Bar Chart"
    THEN LET agg == bar_aggregation(x_type, y_type)
         IN  IF agg = "mean"
             THEN Figure("bar", x, y, mean_by_x(xv, yv), "mean", "none",
                         average_title(x, y), NoWidth, DefaultColor)
             ELSE IF agg = "count"
             THEN Figure("bar", x, "Count", count_by_pair(xv, yv), "count", y,
                         count_title(x, y), NoWidth,
                         grouped_bar_colors(palette))
             ELSE Figure("bar", x, y, paired(xv, yv), "raw", "none",
                         plain_title(kind, x, y), NoWidth, apply_color_theme(palette))
    ELSE IF kind = "Line Chart"
    THEN IF line_aggregation(x_type, y_type) = "mean"
         THEN Figure("line", x, y, mean_by_x(xv, yv), "mean", "none",
                     average_title(x, y), NoWidth, apply_color_theme(palette))
         ELSE Figure("line", x, y, paired(xv, yv), "raw", "none",
                     plain_title(kind, x, y), NoWidth, apply_color_theme(palette))
    ELSE None

----------------------------------------------------------------------------
(* The page: Visualizer.py, one run of the script *)

Cent == Unit \div 100

\* min_value of the bin-width input, 0.01
MinWidth == Cent

\* max_val - min_val of the column
data_range(vals) == max_val(vals) - min_val(vals)

\* round(data_range / 10, 2), the range being a whole number of thousandths
\* and its ten-thousandths not ending in 50 (no tie to break).
round_tenth(range) == ((range + 50) \div 100) * Cent

\* default_bin_width
default_bin_width(vals) ==
    IF round_tenth(data_range(vals)) = 0 THEN Unit ELSE round_tenth(data_range(vals))

\* st.number_input(min_value=0.01, max_value=data_range, value=...): the
\* input is built when the value it starts from lies within its limits, and
\* raises otherwise.
number_input_accepts(vals, value) ==
    MinWidth <= value /\ value <= data_range(vals)

\* The bin settings of a column: None for a Categorical column, else what
\* the input returns, the default while the user has typed nothing (typed =
\* NoWidth) and the typed width after.
bin_settings(vals, col_type, typed) ==
    IF col_type = "Categorical"
    THEN [raised |-> FALSE, width |-> NoWidth]
    ELSE IF ~number_input_accepts(vals, default_bin_width(vals))
    THEN [raised |-> TRUE, width |-> NoWidth]
    ELSE [raised |-> FALSE,
          width |-> IF typed = NoWidth THEN default_bin_width(vals) ELSE typed]

\* What the Gemini call and the steps before it can end in.
AIOutcomes == {"ok", "context", "image", "network"}

ai_fails(outcome, include) ==
    outcome \in {"context", "network"} \/ (outcome = "image" /\ include)

\* Mutant: interpret_chart without its try/except.
interpret_chart_uncaught(cols, kind, include, outcome) ==
    IF ai_fails(outcome, include)
    THEN [kind |-> "raised", cols |-> cols, chart |-> kind]
    ELSE [kind |-> "text", cols |-> cols, chart |-> kind]

\* ChartInterpreter.interpret_chart: the text of the answer, or the message
\* "Error generating interpretation: ..." when a step raised.  cols and chart
\* record the request the text was written for.
interpret_chart(cols, kind, include, outcome) ==
    IF ai_fails(outcome, include)
    THEN [kind |-> "error", cols |-> cols, chart |-> kind]
    ELSE [kind |-> "text", cols |-> cols, chart |-> kind]

Col(name) == IF name = "a" THEN series ELSE series_y

other(name) == IF name = "a" THEN "b" ELSE "a"

\* The single-column branch for the selection <<col>>.
single_column_page(col, kind, palette, typed) ==
    LET vals     == Col(col).vals
        col_type == classify_column(Col(col))
        settings == bin_settings(vals, col_type, typed)
        built    == create_single_column_chart(col, vals, col_type, kind, palette,
                                               settings.width)
    IN  IF settings.raised
        THEN [fig |-> NoFig, width |-> NoWidth, binned |-> FALSE, display |-> "exception"]
        ELSE [fig |-> built, width |-> settings.width,
              binned |-> calls_binning(col_type, kind),
              display |-> IF built = Raised THEN "exception"
                          ELSE IF built # None THEN "chart"
                          ELSE "warning"]

\* The two-column branch for the axes x and the other column.
two_column_page(x, kind, palette) ==
    LET y == other(x)
    IN  [fig |-> create_two_column_chart(x, y, Col(x).vals, Col(y).vals,
                                         classify_column(Col(x)),
                                         classify_column(Col(y)), kind, palette),
         width |-> NoWidth, binned |-> FALSE, display |-> "chart"]

\* Mutant: the branch without a chart answering as the Pie Chart branch does.
no_chart_page_as_rejection ==
    [fig |-> None, width |-> NoWidth, binned |-> FALSE, display |-> "warning"]

\* The branch without a chart.
no_chart_page ==
    [fig |-> NoFig, width |-> NoWidth, binned |-> FALSE, display |-> "info"]

\* One run of the script with the widgets as given: the columns are
\* classified, the branch of the selection builds and shows its chart, and,
\* with an interpreter, the interpretation section below the chart asks for
\* a text when the button was pressed or auto-interpret is on, stores it in
\* the session state and shows what the session state holds.
Rerun(sel, x, kind, palette, typed, auto, include, pressed, outcome) ==
    \E page \in {IF Len(sel) = 1 THEN single_column_page(sel[1], kind, palette, typed)
                 ELSE IF Len(sel) = 2 THEN two_column_page(x, kind, palette)
                 ELSE no_chart_page} :
        LET cols == IF Len(sel) = 2 THEN <<x, other(x)>> ELSE sel
            asks == /\ page.display = "chart"
                    /\ ai_interpreter
                    /\ pressed \/ auto
            text == interpret_chart(cols, kind, include, outcome)
            broke == asks /\ text.kind = "raised"
            one  == IF asks /\ ~broke /\ Len(sel) = 1 THEN text ELSE cur_interp
            two  == IF asks /\ ~broke /\ Len(sel) = 2 THEN text ELSE cur_interp_2col
        IN  /\ tag' = classify_column(series)
            /\ tag_y' = classify_column(series_y)
            /\ classified' = series
            /\ fig' = page.fig
            /\ bin_width' = page.width
            /\ IF page.binned
               THEN \E binned \in {create_binned_data(Col(sel[1]).vals, page.width)} :
                       /\ bins' = binned.bins
                       /\ hist_data' = binned.hist_data
                       /\ binned_data' = binned.binned_data
               ELSE /\ bins' = <<>>
                    /\ hist_data' = <<>>
                    /\ binned_data' = <<>>
            /\ display' = IF broke THEN "exception" ELSE page.display
            /\ cur_interp' = one
            /\ cur_interp_2col' = two
            /\ shown_interp' = IF page.display # "chart" \/ ~ai_interpreter \/ broke
                               THEN NoInterp
                               ELSE IF Len(sel) = 1 THEN one ELSE two

----------------------------------------------------------------------------
(* Chart requests *)

ChartTypes ==
    {"Bar Chart", "Line Chart", "Pie Chart", "Box Plot", "Histogram", "Scatter Plot"}

TwoColumnTypes == {"Scatter Plot", "Bar Chart", "Line Chart"}

Palettes == KnownPalettes \cup {"sunset"}

\* The colours of a chart do not depend on its rows: every theme is tried on
\* the short tables, one theme on the long ones.
FewPalettes == {"viridis"}

ChartWidths == {Half, Unit}

ChartNumbers == {NA, Num(Unit), Num(2 * Unit), Num(2 * Unit + Cent)}
ChartTexts == {NA, Str(1), Str(2)}

ChartColumns ==
    {[numeric |-> TRUE, vals |-> x] : x \in SeqsUpTo(ChartNumbers, MaxChartRows)}
    \cup
    {[numeric |-> FALSE, vals |-> x] : x \in SeqsUpTo(ChartTexts, MaxChartRows)}

\* Two columns of one table, of n rows.
PairColumns(n) ==
    {[numeric |-> TRUE, vals |-> x] : x \in [1..n -> ChartNumbers]}
    \cup
    {[numeric |-> FALSE, vals |-> x] : x \in [1..n -> ChartTexts]}

\* A column of n rows without a value.
Blank(n) == [numeric |-> FALSE, vals |-> [i \in 1..n |-> NA]]

NoAI ==
    /\ ai_interpreter = FALSE
    /\ auto_interpret = FALSE
    /\ include_image = FALSE
    /\ cur_interp = NoInterp
    /\ cur_interp_2col = NoInterp
    /\ shown_interp = NoInterp

NotRun ==
    /\ classified = series
    /\ tag = NoTag
    /\ tag_y = NoTag
    /\ edits = 0
    /\ bins = <<>>
    /\ hist_data = <<>>
    /\ binned_data = <<>>
    /\ fig = NoFig
    /\ display = "nothing"

\* One column selected: any chart kind and theme; the bin-width input holds
\* what the user typed, a width the input admits, or nothing.
InitSingle ==
    /\ selected_cols = <<"a">>
    /\ x_axis = "a"
    /\ series \in ChartColumns
    /\ series_y = Blank(Len(series.vals))
    /\ chart_type \in ChartTypes
    /\ color_palette \in IF Len(series.vals) <= 2 THEN Palettes ELSE FewPalettes
    /\ bin_width \in {NoWidth} \cup
            {w \in ChartWidths :
                /\ classify_column(series) # "Categorical"
                /\ number_input_accepts(series.vals, default_bin_width(series.vals))
                /\ number_input_accepts(series.vals, w)}

\* Two columns selected, either of them the x axis.
InitTwo ==
    /\ selected_cols = <<"a", "b">>
    /\ \E n \in 0..MaxPairRows :
          /\ series \in PairColumns(n)
          /\ series_y \in PairColumns(n)
    /\ x_axis \in IF Len(series.vals) <= 1 THEN {"a", "b"} ELSE {"a"}
    /\ chart_type \in TwoColumnTypes
    /\ color_palette \in IF Len(series.vals) <= 1 THEN Palettes ELSE FewPalettes
    /\ bin_width = NoWidth

\* No column selected, or three.
InitOther ==
    /\ selected_cols \in {<<>>, <<"a", "b", "c">>}
    /\ x_axis = "a"
    /\ \E n \in 0..1 :
          /\ series \in PairColumns(n)
          /\ series_y \in PairColumns(n)
    /\ chart_type \in ChartTypes
    /\ color_palette \in FewPalettes
    /\ bin_width = NoWidth

InitChart ==
    /\ InitSingle \/ InitTwo \/ InitOther
    /\ NotRun
    /\ NoAI

Inputs ==
    <<series, series_y, edits, selected_cols, x_axis, chart_type, color_palette,
      ai_interpreter, auto_interpret, include_image>>

\* len(selected_cols) == 1
SingleColumnBranch ==
    /\ display = "nothing"
    /\ Len(selected_cols) = 1
    /\ Rerun(selected_cols, x_axis, chart_type, color_palette, bin_width,
             auto_interpret, include_image, FALSE, "ok")
    /\ UNCHANGED Inputs

\* len(selected_cols) == 2
TwoColumnBranch ==
    /\ display = "nothing"
    /\ Len(selected_cols) = 2
    /\ Rerun(selected_cols, x_axis, chart_type, color_palette, bin_width,
             auto_interpret, include_image, FALSE, "ok")
    /\ UNCHANGED Inputs

\* else
NoChartBranch ==
    /\ display = "nothing"
    /\ Len(selected_cols) \notin {1, 2}
    /\ Rerun(selected_cols, x_axis, chart_type, color_palette, bin_width,
             auto_interpret, include_image, FALSE, "ok")
    /\ UNCHANGED Inputs

NextChart == SingleColumnBranch \/ TwoColumnBranch \/ NoChartBranch

SpecChart == InitChart /\ [][NextChart]_vars

Single == Len(selected_cols) = 1
Two == Len(selected_cols) = 2
Ran == display # "nothing"
Built == Ran /\ fig # NoFig /\ fig.kind = "Figure"

\* C1: a Pie Chart request on a column classified Numeric (Discrete) or
\* Numeric (Continuous) that comes with a bin width is answered with None,
\* whatever the theme and the bin width, and the page shows the warning, not
\* a chart.
C1_PieOnNumericRejected ==
    (Ran /\ Single /\ chart_type = "Pie Chart" /\ tag \in NumericTags
        /\ bin_width # NoWidth) =>
        /\ fig = None
        /\ display = "warning"

C1_Witness ==
    /\ display = "warning"
    /\ chart_type = "Pie Chart"
    /\ tag = "Numeric (Continuous)"
    /\ color_palette = "viridis"
    /\ bin_width = Half
    /\ fig = None

----------------------------------------------------------------------------
(* The charts of one column *)

Occurrences(vals, c) == Cardinality({i \in DOMAIN vals : vals[i] = c})

FrequencyChart ==
    Built /\ Single /\ tag = "Categorical" /\ chart_type \in {"Bar Chart", "Line Chart"}

\* C11 as stated: the Bar Chart and the Line Chart of a Categorical column
\* plot one entry per distinct non-missing value with its number of
\* occurrences, the entries in ascending order of the value.
C11_OrderedByValue ==
    FrequencyChart =>
        /\ {fig.data[i].value : i \in DOMAIN fig.data} = NonMissingValues(series.vals)
        /\ \A i \in DOMAIN fig.data :
              fig.data[i].Count = Occurrences(series.vals, fig.data[i].value)
        /\ \A i, j \in DOMAIN fig.data : i < j => fig.data[i].value.v < fig.data[j].value.v

\* C11, amended: the Bar Chart and the Line Chart of a Categorical column
\* plot the column's name against Count, one entry per distinct non-missing
\* value with its number of occurrences, the entries in descending order of
\* the count.
C11_OrderedByCount ==
    FrequencyChart =>
        /\ fig.x = selected_cols[1]
        /\ fig.y = "Count"
        /\ Len(fig.data) = Cardinality(NonMissingValues(series.vals))
        /\ {fig.data[i].value : i \in DOMAIN fig.data} = NonMissingValues(series.vals)
        /\ \A i \in DOMAIN fig.data :
              fig.data[i].Count = Occurrences(series.vals, fig.data[i].value)
        /\ \A i, j \in DOMAIN fig.data : i < j => fig.data[i].Count >= fig.data[j].Count

C11_Witness ==
    /\ FrequencyChart
    /\ chart_type = "Bar Chart"
    /\ series.vals = <<Str(1), Str(2), Str(2)>>
    /\ fig.data = <<[value |-> Str(2), Count |-> 2], [value |-> Str(1), Count |-> 1]>>

----------------------------------------------------------------------------
(* The charts of two columns *)

y_axis == other(x_axis)
x_type == IF x_axis = "a" THEN tag ELSE tag_y
y_type == IF x_axis = "a" THEN tag_y ELSE tag

\* The rows of the table whose x is the key and whose y is present.
GroupRows(key) ==
    {i \in DOMAIN Col(x_axis).vals :
        Col(x_axis).vals[i] = key /\ Col(y_axis).vals[i].k = "num"}

\* The sum of the y values of the first k rows of the table whose x is the key.
RECURSIVE SumY(_, _)
SumY(k, key) ==
    IF k = 0 THEN 0
    ELSE SumY(k - 1, key) + (IF k \in GroupRows(key) THEN Col(y_axis).vals[k].v ELSE 0)

MeanChart ==
    /\ Built /\ Two
    /\ chart_type \in {"Bar Chart", "Line Chart"}
    /\ x_type = "Categorical"
    /\ y_type \in NumericTags

\* C12: a Bar Chart or Line Chart of a Categorical x and a numeric y has
\* exactly one point per distinct x value, and the point's y is the mean of
\* the y values of the rows with that x: their sum over their number.
C12_MeanPerX ==
    MeanChart =>
        /\ Len(fig.data) = Cardinality(NonMissingValues(Col(x_axis).vals))
        /\ {fig.data[i].x : i \in DOMAIN fig.data} = NonMissingValues(Col(x_axis).vals)
        /\ \A i \in DOMAIN fig.data :
              /\ fig.data[i].y.n = Cardinality(GroupRows(fig.data[i].x))
              /\ fig.data[i].y.sum = SumY(Len(Col(x_axis).vals), fig.data[i].x)

C12_Witness ==
    /\ MeanChart
    /\ chart_type = "Bar Chart"
    /\ x_axis = "a"
    /\ series.vals = <<Str(1), Str(1)>>
    /\ series_y.vals = <<Num(Unit), Num(2 * Unit)>>
    /\ fig.data = <<[x |-> Str(1), y |-> [sum |-> 3 * Unit, n |-> 2]]>>


----------------------------------------------------------------------------
(* The selection without a chart *)

NoChartSelection == Ran /\ Len(selected_cols) \notin {1, 2}

\* C13 as stated: with no column or more than two selected the builder
\* answers with its rejection, no chart is shown, and the page shows a
\* warning, not an exception.
C13_RejectionAndWarning ==
    NoChartSelection =>
        /\ fig = None
        /\ display = "warning"

\* C13, amended: with no column or more than two selected no builder is
\* called and no chart is shown; the page shows its notice to select one or
\* two columns, not a warning and not an exception.
C13_NoBuilderAndNotice ==
    NoChartSelection =>
        /\ fig = NoFig
        /\ display = "info"
        /\ shown_interp = NoInterp

C13_Witness ==
    /\ NoChartSelection
    /\ selected_cols = <<"a", "b", "c">>
    /\ display = "info"

----------------------------------------------------------------------------
(* Colours *)

MultiCategory == Built /\ (fig.mark = "pie" \/ fig.agg = "count")

\* C14: a chart asked for with a theme name that is not a known theme has
\* the colours of the default theme, whatever its kind and columns.
C14_UnknownThemeIsDefault ==
    (Built /\ color_palette \notin KnownPalettes) => fig.color = DefaultColor

\* C15: with a theme other than the default, a chart of one series is
\* coloured from a sequential scale, a Pie Chart and the Bar Chart of two
\* Categorical columns from a qualitative sequence, never a sequential one,
\* and that sequence is the same in both for the same theme.
C15_ScaleByChart ==
    (Built /\ color_palette \in KnownPalettes \ {"plotly"}) =>
        IF MultiCategory
        THEN /\ fig.color.family = "qualitative"
             /\ fig.color = pie_colors(color_palette)
             /\ fig.color = grouped_bar_colors(color_palette)
        ELSE fig.color.family = "sequential"

----------------------------------------------------------------------------
(* Titles *)

Words(title) == {title[i] : i \in DOMAIN title}

PlottedColumns == IF Two THEN {x_axis, y_axis} ELSE {selected_cols[1]}

Aggregated == Two /\ fig.agg \in {"mean", "count"}

\* C16 as stated: the title of every chart a builder returns holds the chart
\* kind asked for and the name of every selected column.
C16_KindAndColumns ==
    Built =>
        /\ chart_type \in Words(fig.title)
        /\ PlottedColumns \subseteq Words(fig.title)

\* C16, amended: the title of every chart a builder returns holds the name of
\* every selected column; it holds the chart kind asked for except on the
\* two-column charts of aggregated data, titled "Average y by x" and "Count by
\* x and y" whether the chart is a Bar Chart or a Line Chart.
C16_ColumnsAndKindUnlessAggregated ==
    Built =>
        /\ PlottedColumns \subseteq Words(fig.title)
        /\ ~Aggregated => chart_type \in Words(fig.title)
        /\ Aggregated =>
              /\ chart_type \notin Words(fig.title)
              /\ fig.title \in {<<"Average", y_axis, "by", x_axis>>,
                                <<"Count", "by", x_axis, "and", y_axis>>}

C16_Witness ==
    /\ Built /\ Two
    /\ chart_type = "Line Chart"
    /\ x_axis = "b"
    /\ fig.title = <<"Average", "a", "by", "b">>

----------------------------------------------------------------------------
(* Aggregation *)

PairCount(x, y) ==
    Cardinality({i \in DOMAIN Col(x_axis).vals :
                    Col(x_axis).vals[i] = x /\ Col(y_axis).vals[i] = y})

\* C18: a two-column chart plots the mean of y by x exactly when it is a Bar
\* or Line Chart of a Categorical x and a numeric y, the count of each (x, y)
\* pair with y as the colour exactly when it is a Bar Chart of two Categorical
\* columns, and the rows of the table as they are in every other case.
C18_AggregationMode ==
    (Built /\ Two) =>
        /\ fig.agg = "mean" <=>
              /\ chart_type \in {"Bar Chart", "Line Chart"}
              /\ x_type = "Categorical"
              /\ y_type \in NumericTags
        /\ fig.agg = "count" <=>
              /\ chart_type = "Bar Chart"
              /\ x_type = "Categorical"
              /\ y_type = "Categorical"
        /\ fig.agg \in {"mean", "count", "raw"}
        /\ fig.agg = "mean" =>
              /\ fig.color_by = "none"
              /\ fig.y = y_axis
              /\ \A i \in DOMAIN fig.data :
                    fig.data[i].y.n = Cardinality(GroupRows(fig.data[i].x))
        /\ fig.agg = "count" =>
              /\ fig.color_by = y_axis
              /\ fig.y = "Count"
              /\ \A i \in DOMAIN fig.data :
                    /\ fig.data[i].Count = PairCount(fig.data[i].x, fig.data[i].y)
                    /\ fig.data[i].Count > 0
        /\ fig.agg = "raw" =>
              /\ fig.color_by = "none"
              /\ fig.y = y_axis
              /\ fig.data = [i \in DOMAIN Col(x_axis).vals |->
                                [x |-> Col(x_axis).vals[i], y |-> Col(y_axis).vals[i]]]

C18_Witness ==
    /\ Built /\ Two
    /\ chart_type = "Bar Chart"
    /\ x_axis = "a"
    /\ series.vals = <<Str(1), Str(1)>>
    /\ series_y.vals = <<Str(2), Str(2)>>
    /\ fig.agg = "count"
    /\ fig.color_by = "b"
    /\ fig.data = <<[x |-> Str(1), y |-> Str(2), Count |-> 2]>>

----------------------------------------------------------------------------
(* Bin settings *)

\* C19: for a numeric column the default bin width is positive and lies
\* within the limits of the bin-width input, and the width that reaches the
\* builder is positive.
C19_DefaultAccepted ==
    (Ran /\ Single /\ tag \in NumericTags) =>
        /\ default_bin_width(series.vals) > 0
        /\ number_input_accepts(series.vals, default_bin_width(series.vals))
        /\ display # "exception"
        /\ bin_width > 0


----------------------------------------------------------------------------
(* The page in use: one run of the script per interaction *)

\* The uploaded table: a text column "a" and a column of numbers "b".
UIText == [numeric |-> FALSE, vals |-> <<Str(1), Str(2), Str(2)>>]
UINumbers ==
    {[numeric |-> TRUE, vals |-> <<Num(2 * Unit), Num(4 * Unit), Num(3 * Unit)>>],
     [numeric |-> TRUE, vals |-> <<Num(2 * Unit), Num(2 * Unit), Num(2 * Unit)>>]}

UIPalettes == {"plotly", "viridis"}

\* The options of the "Chart type" selectbox of a selection.
chart_options(sel) ==
    IF Len(sel) = 1
    THEN IF classify_column(Col(sel[1])) = "Categorical"
         THEN <<"Bar Chart", "Line Chart", "Pie Chart">>
         ELSE <<"Bar Chart", "Line Chart", "Box Plot", "Histogram">>
    ELSE IF Len(sel) = 2
    THEN <<"Scatter Plot", "Bar Chart", "Line Chart">>
    ELSE <<>>

\* The value of the "Chart type" selectbox once the selection is sel: a
\* selectbox with other options is another widget and starts at its first
\* option; without a selectbox the variable holds what it held at first.
chart_type_after(sel) ==
    IF chart_options(sel) = <<>> THEN "Bar Chart"
    ELSE IF chart_options(sel) = chart_options(selected_cols) THEN chart_type
    ELSE chart_options(sel)[1]

\* The value of the "X-axis column" selectbox once the selection is sel.
x_axis_after(sel) == IF sel = <<>> THEN "a" ELSE sel[1]

\* The page after the upload, nothing selected yet.
InitUI ==
    /\ series = UIText
    /\ series_y \in UINumbers
    /\ classified = series
    /\ tag = classify_column(series)
    /\ tag_y = classify_column(series_y)
    /\ edits = 0
    /\ selected_cols = <<>>
    /\ x_axis = "a"
    /\ chart_type = "Bar Chart"
    /\ color_palette = "plotly"
    /\ bin_width = NoWidth
    /\ bins = <<>>
    /\ hist_data = <<>>
    /\ binned_data = <<>>
    /\ fig = NoFig
    /\ display = "info"
    /\ ai_interpreter = TRUE
    /\ auto_interpret = FALSE
    /\ include_image = TRUE
    /\ cur_interp = NoInterp
    /\ cur_interp_2col = NoInterp
    /\ shown_interp = NoInterp

Table == <<series, series_y, edits, ai_interpreter, include_image>>

\* interpret_chart runs, and can fail, in the runs with the button pressed
\* or auto-interpret on.
OutcomesOf(auto, pressed) == IF auto \/ pressed THEN AIOutcomes ELSE {"ok"}

\* The user adds a column to the multiselect.
SelectColumn ==
    \E c \in {"a", "b"} \ {selected_cols[i] : i \in DOMAIN selected_cols},
       outcome \in OutcomesOf(auto_interpret, FALSE) :
        LET sel == Append(selected_cols, c)
        IN  /\ selected_cols' = sel
            /\ chart_type' = chart_type_after(sel)
            /\ x_axis' = x_axis_after(sel)
            /\ Rerun(sel, x_axis_after(sel), chart_type_after(sel), color_palette,
                     NoWidth, auto_interpret, include_image, FALSE, outcome)
            /\ UNCHANGED <<Table, color_palette, auto_interpret>>

\* The user removes a column from the multiselect.
DeselectColumn ==
    \E i \in DOMAIN selected_cols, outcome \in OutcomesOf(auto_interpret, FALSE) :
        LET sel == RemoveAt(selected_cols, i)
        IN  /\ selected_cols' = sel
            /\ chart_type' = chart_type_after(sel)
            /\ x_axis' = x_axis_after(sel)
            /\ Rerun(sel, x_axis_after(sel), chart_type_after(sel), color_palette,
                     NoWidth, auto_interpret, include_image, FALSE, outcome)
            /\ UNCHANGED <<Table, color_palette, auto_interpret>>

\* The user picks another chart type.
ChooseChartType ==
    \E k \in DOMAIN chart_options(selected_cols),
       outcome \in OutcomesOf(auto_interpret, FALSE) :
        /\ chart_options(selected_cols)[k] # chart_type
        /\ chart_type' = chart_options(selected_cols)[k]
        /\ Rerun(selected_cols, x_axis, chart_options(selected_cols)[k], color_palette,
                 NoWidth, auto_interpret, include_image, FALSE, outcome)
        /\ UNCHANGED <<Table, selected_cols, x_axis, color_palette, auto_interpret>>

\* The user exchanges the axes.
ChooseAxis ==
    \E outcome \in OutcomesOf(auto_interpret, FALSE) :
        /\ Len(selected_cols) = 2
        /\ x_axis' = other(x_axis)
        /\ Rerun(selected_cols, other(x_axis), chart_type, color_palette,
                 NoWidth, auto_interpret, include_image, FALSE, outcome)
        /\ UNCHANGED <<Table, selected_cols, chart_type, color_palette, auto_interpret>>

\* The user picks another colour theme.
ChooseTheme ==
    \E p \in UIPalettes \ {color_palette},
       outcome \in OutcomesOf(auto_interpret, FALSE) :
        /\ color_palette' = p
        /\ Rerun(selected_cols, x_axis, chart_type, p,
                 NoWidth, auto_interpret, include_image, FALSE, outcome)
        /\ UNCHANGED <<Table, selected_cols, x_axis, chart_type, auto_interpret>>

\* The user ticks or unticks "Auto-interpret charts".
ToggleAuto ==
    \E outcome \in OutcomesOf(~auto_interpret, FALSE) :
        /\ ai_interpreter
        /\ auto_interpret' = ~auto_interpret
        /\ Rerun(selected_cols, x_axis, chart_type, color_palette,
                 NoWidth, ~auto_interpret, include_image, FALSE, outcome)
        /\ UNCHANGED <<Table, selected_cols, x_axis, chart_type, color_palette>>

\* The user presses "Interpret Chart" under the chart.
PressInterpret ==
    \E outcome \in AIOutcomes :
        /\ ai_interpreter
        /\ display = "chart"
        /\ Rerun(selected_cols, x_axis, chart_type, color_palette,
                 NoWidth, auto_interpret, include_image, TRUE, outcome)
        /\ UNCHANGED <<Table, selected_cols, x_axis, chart_type, color_palette,
                       auto_interpret>>

NextUI ==
    \/ SelectColumn
    \/ DeselectColumn
    \/ ChooseChartType
    \/ ChooseAxis
    \/ ChooseTheme
    \/ ToggleAuto
    \/ PressInterpret

SpecUI == InitUI /\ [][NextUI]_vars

\* The chart the builders give for the widgets as they stand.
ChartOfWidgets ==
    IF Single THEN single_column_page(selected_cols[1], chart_type, color_palette, NoWidth)
    ELSE IF Two THEN two_column_page(x_axis, chart_type, color_palette)
    ELSE no_chart_page

\* C17: a failure of the interpretation is shown as the error message under
\* the chart and ends no run: the page shows an exception only when the
\* bin-width input raised, and where the message is shown the chart is the
\* one the builder gave and the columns are classified as before.
C17_FailureContained ==
    /\ display = "exception" => ChartOfWidgets.display = "exception"
    /\ {cur_interp.kind, cur_interp_2col.kind, shown_interp.kind}
          \subseteq {"NoInterp", "text", "error"}
    /\ shown_interp.kind = "error" =>
          /\ display = "chart"
          /\ fig = ChartOfWidgets.fig
          /\ fig.kind = "Figure"
          /\ tag = classify_column(series)
          /\ tag_y = classify_column(series_y)
          /\ classified = series

C17_Witness ==
    /\ shown_interp.kind = "error"
    /\ shown_interp.cols = <<"b", "a">>
    /\ shown_interp.chart = "Bar Chart"
    /\ Two /\ x_axis = "b" /\ chart_type = "Bar Chart"
    /\ display = "chart"
    /\ fig.kind = "Figure"

ShownColumns == IF Two THEN <<x_axis, y_axis>> ELSE selected_cols

\* C20: an interpretation shown under a chart was written for that chart,
\* the same columns and the same chart kind.
C20_InterpretationOfShownChart ==
    shown_interp # NoInterp =>
        /\ shown_interp.cols = ShownColumns
        /\ shown_interp.chart = chart_type

====
